---- MODULE Spec2Model ----
(***************************************************************************)
(* Model of the Ubiquiti stock alert monitor: the deduplication engine     *)
(* (src/src/deduplication.py), the store poller (src/src/store_poller.py), *)
(* the Discord listener's message handler (src/src/discord_listener.py),   *)
(* the Home Assistant webhook client (src/src/ha_webhook.py) and the       *)
(* orchestrator's two alert handlers (src/src/main.py).                    *)
(*                                                                         *)
(* Strings are sequences of ASCII codes so that str.lower() is modelled by *)
(* what it does.  Time is counted in whole minutes: a window of 2 with an   *)
(* elapsed time of 1 stands for every elapsed time strictly inside a       *)
(* window.                                                                 *)
(***************************************************************************)
EXTENDS Integers, Sequences, FiniteSets, TLC

\* ---------------------------------------------------------------- bounds
MaxTime == 2          \* the clock runs over 0..MaxTime minutes
MaxWindow == 2        \* window_minutes is drawn from -1..MaxWindow (0.. in Spec)
MaxCalls == 4         \* direct calls of the engine's API in SpecGate

\* ---------------------------------------------------------------- strings
\* "AB", "aB", "ab", "c" and the empty string, as ASCII codes.
SkuAB == <<65, 66>>
SkuaB == <<97, 66>>
Skuab == <<97, 98>>
Skuc == <<99>>
EmptyStr == <<>>

\* Argument values for should_alert (any str).
SKUs == {SkuAB, SkuaB, Skuab, Skuc}

\* Optional[str]: None is <<>>, the string s is <<s>>.
None == <<>>
Some(s) == <<s>>
ClearArgs == {None, Some(EmptyStr)} \cup {Some(s) : s \in SKUs}

\* str.lower() on ASCII: 'A'..'Z' (65..90) map to 'a'..'z' (97..122).
LowerChar(c) == IF c >= 65 /\ c <= 90 THEN c + 32 ELSE c
Lower(s) == [i \in DOMAIN s |-> LowerChar(s[i])]

\* ---------------------------------------------------------------- state
VARIABLES
    window_minutes,   \* DeduplicationEngine.window_minutes
    last_alerts,      \* DeduplicationEngine._last_alerts: lower-cased SKU -> time
    now,              \* datetime.now(), in minutes
    ncalls,           \* number of direct API calls made so far (SpecGate)
    last_call,        \* history: the most recent direct API call, what it
                      \* returned, the approval of its SKU that preceded it
                      \* and the spelling each SKU was last approved under
    approvals,        \* history: per lower-cased SKU, the time should_alert
                      \* last returned True since the last clear() call
    products,         \* StorePoller.products: the configured SKUs, in order
    running,          \* StorePoller._running
    task,             \* StorePoller._task: "none", "active" or "done"
    ppc,              \* where the poll-loop task is suspended
    idx,              \* index of the product the current cycle is at
    previous_states,  \* StorePoller._previous_states: product.sku -> bool
    psession,         \* StorePoller._session: "none", "open" or "closed"
    stop_pc,          \* where a StorePoller.stop() call is suspended
    hsession,         \* HAWebhookClient._session: "none", "open" or "closed"
    dmsg,             \* the on_message coroutine in flight, if any
    inflight,         \* per producer, its handler invocation that is
                      \* suspended in send_alert (SKU, gate result, number of
                      \* send_alert calls)
    probed,           \* history: product indices probed in the current cycle
    cycle_failed,     \* history: product indices whose probe failed this cycle
    seen,             \* history: per product index, the last observation
    last_probe,       \* history: the check_product that returned in the
                      \* latest step, if one did, and what followed from it
    gated,            \* history: the should_alert calls the handlers made in
                      \* the latest step, in order
    ended,            \* history: the handler invocations that ended in the
                      \* latest step, in order
    queried,          \* history: the status query or start() call answered
                      \* in the latest step, if one was, and what it returned
    cadence,          \* StorePoller.interval_seconds with the configured
                      \* value, and the times the current cycle started, the
                      \* last cycle ended and the interval sleep ends
    mstop,            \* where StockAlertMonitor.stop() has got to
    bench             \* history: the latest direct call of send_alert or of
                      \* _parse_product_page, its input and its result

gateVars == <<window_minutes, last_alerts, now, ncalls, last_call, approvals>>
pollVars == <<bench, mstop, cadence, products, running, task, ppc, idx, previous_states, psession,
              stop_pc, probed, cycle_failed, seen>>
sysVars == <<bench, mstop, cadence, products, running, task, ppc, idx, previous_states, psession,
             stop_pc, hsession, dmsg, inflight, probed, cycle_failed, seen,
             last_probe, gated, ended, queried>>
vars == <<window_minutes, last_alerts, now, ncalls, last_call, approvals,
          products, running, task, ppc, idx, previous_states, psession,
          stop_pc, hsession, dmsg, inflight, probed, cycle_failed, seen,
          last_probe, gated, ended, queried, cadence, mstop, bench>>

\* timedelta(minutes=self.window_minutes)
Window == window_minutes

\* dict helpers
DictSet(d, k, v) == [x \in (DOMAIN d) \cup {k} |-> IF x = k THEN v ELSE d[x]]
DictPop(d, k) == [x \in (DOMAIN d) \ {k} |-> d[x]]
EmptyDict == [x \in {} |-> 0]

\* Initial values of the records held in the state.
NoInflight == [sku |-> EmptyStr, approved |-> FALSE, sent |-> 0]
NoProbe == [idx |-> 0, in_stock |-> FALSE, quantity |-> None, failure |-> "none",
            prior |-> "unseen", alerted |-> FALSE, raised |-> FALSE]
IdleMsg == [pc |-> "idle", rest |-> <<>>]
NoBench == [op |-> "none", arg |-> <<>>, out |-> <<>>]
NoQuery == [who |-> "none", status |-> EmptyDict]

\* No check_product, gate call or handler end happens in this step.
Quiet ==
    /\ last_probe' = NoProbe
    /\ gated' = <<>>
    /\ ended' = <<>>
    /\ queried' = NoQuery

\* ---------------------------------------------------------------- DeduplicationEngine
\* Mutants of should_alert (plausible slips in deduplication.py:39-61).
should_alert_never_records(la, product_sku) ==
    IF window_minutes <= 0
    THEN [ret |-> TRUE, last_alerts |-> la]
    ELSE LET sku_lower == Lower(product_sku) IN
         IF sku_lower \in DOMAIN la
            /\ now - la[sku_lower] < Window
         THEN [ret |-> FALSE, last_alerts |-> la]
         ELSE [ret |-> TRUE, last_alerts |-> la]

should_alert_le(la, product_sku) ==
    IF window_minutes <= 0
    THEN [ret |-> TRUE, last_alerts |-> la]
    ELSE LET sku_lower == Lower(product_sku) IN
         IF sku_lower \in DOMAIN la
            /\ now - la[sku_lower] <= Window
         THEN [ret |-> FALSE, last_alerts |-> la]
         ELSE [ret |-> TRUE, last_alerts |-> DictSet(la, sku_lower, now)]

should_alert_reject_refreshes(la, product_sku) ==
    IF window_minutes <= 0
    THEN [ret |-> TRUE, last_alerts |-> la]
    ELSE LET sku_lower == Lower(product_sku) IN
         IF sku_lower \in DOMAIN la
            /\ now - la[sku_lower] < Window
         THEN [ret |-> FALSE, last_alerts |-> DictSet(la, sku_lower, now)]
         ELSE [ret |-> TRUE, last_alerts |-> DictSet(la, sku_lower, now)]

should_alert_records_when_disabled(la, product_sku) ==
    LET sku_lower == Lower(product_sku) IN
    IF window_minutes > 0
       /\ sku_lower \in DOMAIN la
       /\ now - la[sku_lower] < Window
    THEN [ret |-> FALSE, last_alerts |-> la]
    ELSE [ret |-> TRUE, last_alerts |-> DictSet(la, sku_lower, now)]

should_alert_case_sensitive(la, product_sku) ==
    IF window_minutes <= 0
    THEN [ret |-> TRUE, last_alerts |-> la]
    ELSE IF product_sku \in DOMAIN la
            /\ now - la[product_sku] < Window
         THEN [ret |-> FALSE, last_alerts |-> la]
         ELSE [ret |-> TRUE, last_alerts |-> DictSet(la, product_sku, now)]

\* DeduplicationEngine.should_alert, called when _last_alerts is la: the
\* value returned and the new _last_alerts.  The method has no suspension
\* point, so the event loop runs it as one step.
should_alert(la, product_sku) ==
    IF window_minutes <= 0
    THEN [ret |-> TRUE, last_alerts |-> la]
    ELSE LET sku_lower == Lower(product_sku) IN
         IF sku_lower \in DOMAIN la
            /\ now - la[sku_lower] < Window
         THEN [ret |-> FALSE, last_alerts |-> la]
         ELSE [ret |-> TRUE, last_alerts |-> DictSet(la, sku_lower, now)]

\* DeduplicationEngine.clear: the new _last_alerts.  `if product_sku:` is
\* false for None and for the empty string.
clear(product_sku) ==
    IF product_sku # None /\ product_sku[1] # EmptyStr
    THEN DictPop(last_alerts, Lower(product_sku[1]))
    ELSE EmptyDict

\* Mutant of get_status: a record is reported blocked until remaining < 0.
get_status_blocked_at_zero ==
    [sku \in DOMAIN last_alerts |->
        LET elapsed == now - last_alerts[sku]
            remaining == Window - elapsed
        IN IF remaining >= 0
           THEN [blocked |-> TRUE, secs |-> remaining * 60]
           ELSE [blocked |-> FALSE, secs |-> 0]]

\* DeduplicationEngine.get_status: per tracked SKU, "blocked for <n>s" as
\* [blocked |-> TRUE, secs |-> n] or "expired" as [blocked |-> FALSE, secs |-> 0].
get_status ==
    [sku \in DOMAIN last_alerts |->
        LET elapsed == now - last_alerts[sku]
            remaining == Window - elapsed
        IN IF remaining > 0
           THEN [blocked |-> TRUE, secs |-> remaining * 60]
           ELSE [blocked |-> FALSE, secs |-> 0]]

\* ---------------------------------------------------------------- history
\* ap with an approval at time t noted for key k.
NoteApproval(ap, k, t) == DictSet(ap, k, t)

\* The latest approval of key k recorded in ap, if any.
LastApproval(ap, k) == IF k \in DOMAIN ap THEN Some(ap[k]) ELSE None

\* ---------------------------------------------------------------- HAWebhookClient
\* What the webhook endpoint can answer to session.post: a response with a
\* status, an aiohttp.ClientError, or another exception (a timeout).
SinkResponses ==
    {[kind |-> "http", status |-> 200], [kind |-> "http", status |-> 204],
     [kind |-> "http", status |-> 500],
     [kind |-> "client_error", status |-> 0], [kind |-> "timeout", status |-> 0]}

\* HAWebhookClient.send_alert from the answer to its POST: the value returned
\* and whether an exception leaves the method.
send_alert(resp) ==
    IF resp.kind = "http"
    THEN [ret |-> resp.status = 200, raised |-> FALSE]
    ELSE [ret |-> FALSE, raised |-> FALSE]

\* _get_session of HAWebhookClient and of StorePoller: a missing or closed
\* session is replaced by a new one.
get_session(sess) == IF sess = "none" \/ sess = "closed" THEN "open" ELSE sess

\* ---------------------------------------------------------------- StockAlertMonitor
\* Mutant of _on_store_alert: the `return` after a rejection is missing.
on_store_alert_no_return(la, product_sku) ==
    LET r == should_alert(la, product_sku) IN
    [approved |-> r.ret, last_alerts |-> r.last_alerts, sent |-> 1]

\* StockAlertMonitor._on_store_alert up to its suspension in send_alert: the
\* gate's answer, the new _last_alerts and the number of send_alert calls.
on_store_alert(la, product_sku) ==
    LET r == should_alert(la, product_sku) IN
    [approved |-> r.ret, last_alerts |-> r.last_alerts,
     sent |-> IF r.ret THEN 1 ELSE 0]

\* StockAlertMonitor._on_discord_alert up to its suspension in send_alert.
on_discord_alert(la, product_sku) ==
    LET r == should_alert(la, product_sku) IN
    [approved |-> r.ret, last_alerts |-> r.last_alerts,
     sent |-> IF r.ret THEN 1 ELSE 0]

\* Mutant of the handlers' tail: a failed delivery removes the dedup record.
on_alert_sent_unrecords(la, product_sku, r) ==
    [resend |-> FALSE,
     last_alerts |-> IF r.ret THEN la ELSE DictPop(la, Lower(product_sku))]

\* The tail of both handlers once send_alert has returned r: the result is
\* discarded, nothing is submitted again and _last_alerts is left alone.
on_alert_sent(la, product_sku, r) ==
    [resend |-> FALSE, last_alerts |-> la]

\* ---------------------------------------------------------------- StorePoller
\* Product lists of the configuration (ProductConfig.sku, in order).
ProductLists == {<<SkuAB>>, <<SkuAB, Skuab>>, <<Skuab, Skuc>>}

\* What a product page can hold: whether BeautifulSoup parses it, whether a
\* later call on the soup raises, the add-to-cart button, an out-of-stock
\* phrase, and the quantity element (absent, empty, not a number, a number).
Pages ==
    [parse : {"ok"}, cart : BOOLEAN, oos : BOOLEAN,
     qty : {"absent", "empty", "text", "number"}]
    \cup [parse : {"soup_error", "find_error"}, cart : {TRUE}, oos : {FALSE},
          qty : {"number"}]
NoPage == [parse |-> "ok", cart |-> FALSE, oos |-> FALSE, qty |-> "absent"]

\* What session.get can produce for a product URL.
ProbeResponses ==
    [kind : {"http"}, status : {200}, page : Pages]
    \cup [kind : {"http"}, status : {204, 404}, page : {NoPage}]
    \cup [kind : {"client_error", "timeout"}, status : {0}, page : {NoPage}]

\* Mutant of _parse_product_page: the out-of-stock phrases are not looked at.
parse_product_page_ignores_phrases(page) ==
    IF page.parse = "soup_error"
    THEN [in_stock |-> FALSE, quantity |-> None, raised |-> FALSE]
    ELSE IF page.parse = "find_error"
    THEN [in_stock |-> FALSE, quantity |-> None, raised |-> TRUE]
    ELSE [in_stock |-> page.cart,
          quantity |-> IF page.qty = "number" THEN Some(3) ELSE None,
          raised |-> FALSE]

\* StorePoller._parse_product_page
parse_product_page(page) ==
    IF page.parse = "soup_error"
    THEN [in_stock |-> FALSE, quantity |-> None, raised |-> FALSE]
    ELSE IF page.parse = "find_error"
    THEN [in_stock |-> FALSE, quantity |-> None, raised |-> TRUE]
    ELSE [in_stock |-> page.cart /\ ~page.oos,
          quantity |-> IF page.qty = "number" THEN Some(3) ELSE None,
          raised |-> FALSE]

ProbeFailed(kind) ==
    [in_stock |-> FALSE, quantity |-> None, failure |-> kind, raised |-> FALSE]

\* Mutant of check_product: the generic `except Exception` is missing.
check_product_reraises(resp) ==
    IF resp.kind = "http"
    THEN IF resp.status # 200
         THEN ProbeFailed("http_status")
         ELSE LET r == parse_product_page(resp.page) IN
              IF r.raised
              THEN [in_stock |-> FALSE, quantity |-> None,
                    failure |-> "parse", raised |-> TRUE]
              ELSE [in_stock |-> r.in_stock, quantity |-> r.quantity,
                    failure |-> IF resp.page.parse = "ok" THEN "none" ELSE "parse",
                    raised |-> FALSE]
    ELSE IF resp.kind = "client_error"
    THEN ProbeFailed(resp.kind)
    ELSE [in_stock |-> FALSE, quantity |-> None,
          failure |-> resp.kind, raised |-> TRUE]

\* StorePoller.check_product from the answer to its GET: the ProductStatus
\* returned, the kind of failure (history) and whether an exception leaves
\* the method.
check_product(resp) ==
    IF resp.kind = "http"
    THEN IF resp.status # 200
         THEN ProbeFailed("http_status")
         ELSE LET r == parse_product_page(resp.page) IN
              IF r.raised
              THEN ProbeFailed("parse")
              ELSE [in_stock |-> r.in_stock, quantity |-> r.quantity,
                    failure |-> IF resp.page.parse = "ok" THEN "none" ELSE "parse",
                    raised |-> FALSE]
    ELSE ProbeFailed(resp.kind)

\* self._previous_states.get(product.sku, False)
was_in_stock(sku) ==
    IF sku \in DOMAIN previous_states THEN previous_states[sku] ELSE FALSE

\* Mutant of the state update: a product once seen in stock stays so.
update_state_sticky(sku, in_stock) ==
    DictSet(previous_states, sku, in_stock \/ was_in_stock(sku))

\* self._previous_states[product.sku] = status.in_stock
update_state(sku, in_stock) == DictSet(previous_states, sku, in_stock)

\* Mutant of the alert condition: level-triggered instead of edge-triggered.
should_fire_on_level(in_stock, was) == in_stock

\* `if status.in_stock and not was_in_stock:`
should_fire(in_stock, was) == in_stock /\ ~was

\* ---------------------------------------------------------------- direct API calls
\* The spelling under which key k was last approved through the API, if any.
SpelledAs(sp, k) == IF k \in DOMAIN sp THEN sp[k] ELSE EmptyStr

\* A caller invokes dedup.should_alert(sku).
ShouldAlertCall(sku) ==
    /\ ncalls < MaxCalls
    /\ LET r == should_alert(last_alerts, sku)
           k == Lower(sku)
       IN
       /\ last_alerts' = r.last_alerts
       /\ last_call' = [op |-> "should_alert", arg |-> Some(sku), t |-> now,
                        ret |-> r.ret, status |-> EmptyDict,
                        prev |-> LastApproval(approvals, k),
                        prev_sku |-> SpelledAs(last_call.spelled, k),
                        spelled |-> IF r.ret
                                    THEN DictSet(last_call.spelled, k, sku)
                                    ELSE last_call.spelled]
       /\ approvals' = IF r.ret THEN NoteApproval(approvals, k, now)
                       ELSE approvals
    /\ ncalls' = ncalls + 1
    /\ UNCHANGED <<window_minutes, now>>
    /\ UNCHANGED sysVars

\* A caller invokes dedup.clear(arg).
ClearCall(arg) ==
    /\ ncalls < MaxCalls
    /\ last_alerts' = clear(arg)
    /\ last_call' = [op |-> "clear", arg |-> arg, t |-> now,
                     ret |-> FALSE, status |-> EmptyDict, prev |-> None,
                     prev_sku |-> EmptyStr, spelled |-> EmptyDict]
    /\ approvals' = EmptyDict
    /\ ncalls' = ncalls + 1
    /\ UNCHANGED <<window_minutes, now>>
    /\ UNCHANGED sysVars

\* A caller invokes dedup.get_status().
GetStatusCall ==
    /\ ncalls < MaxCalls
    /\ last_call' = [op |-> "get_status", arg |-> None, t |-> now,
                     ret |-> FALSE, status |-> get_status, prev |-> None,
                     prev_sku |-> EmptyStr, spelled |-> last_call.spelled]
    /\ ncalls' = ncalls + 1
    /\ UNCHANGED <<window_minutes, last_alerts, now, approvals>>
    /\ UNCHANGED sysVars

\* The wall clock advances.
Tick ==
    /\ now < MaxTime
    /\ now' = now + 1
    /\ Quiet
    /\ UNCHANGED <<window_minutes, last_alerts, ncalls, last_call, approvals>>
    /\ UNCHANGED <<bench, mstop, cadence, products, running, task, ppc, idx, previous_states, psession,
                   stop_pc, hsession, dmsg, inflight, probed, cycle_failed, seen>>

\* DeduplicationEngine.__init__
GateInit ==
    /\ last_alerts = EmptyDict
    /\ now = 0
    /\ ncalls = 0
    /\ last_call = [op |-> "none", arg |-> None, t |-> 0,
                    ret |-> FALSE, status |-> EmptyDict, prev |-> None,
                    prev_sku |-> EmptyStr, spelled |-> EmptyDict]
    /\ approvals = EmptyDict


GateShouldAlert == \E sku \in SKUs : ShouldAlertCall(sku)
GateClear == \E arg \in ClearArgs : ClearCall(arg)

\* ---------------------------------------------------------------- the running system
\* DiscordListener.watched_roles: the configured roles "AB" and "c", lower-cased.
watched_roles == {Lower(r) : r \in {SkuAB, Skuc}}

\* message.role_mentions of the messages that arrive ("z" is not watched).
Skuz == <<122>>
RoleLists ==
    {<<SkuaB>>, <<Skuc>>, <<Skuz>>, <<SkuaB, SkuAB>>, <<Skuc, SkuaB>>,
     <<Skuz, Skuc>>}
Messages ==
    [guild : {TRUE}, own : {FALSE}, roles : RoleLists]
    \cup [guild : {FALSE}, own : {FALSE}, roles : {<<SkuaB>>}]
    \cup [guild : {TRUE}, own : {TRUE}, roles : {<<SkuaB>>}]

\* History record of a should_alert call made by the handler of producer src.
Gated(src, sku, h, ap) ==
    [src |-> src, sku |-> sku, ret |-> h.approved,
     prev |-> LastApproval(ap, Lower(sku))]

\* History record of a handler invocation that has ended.
Ended(src, sku, approved, sent, outcome) ==
    [src |-> src, sku |-> sku, approved |-> approved, sent |-> sent,
     outcome |-> outcome]

\* How a submission ended, from what send_alert did.
Outcome(r) ==
    IF r.raised THEN "raised" ELSE IF r.ret THEN "delivered" ELSE "failed"

\* The minimum polling interval and the interval main.py passes when the
\* configuration names none, in seconds.
MinInterval == 60
DefaultInterval == 60

\* Values of store_poller.interval_seconds in the configuration.
ConfiguredIntervals == {0, 30, 60, 120}

\* Mutant of __init__: the configured interval is taken as it is.
effective_interval_unclamped(interval_seconds) == interval_seconds

\* max(60, interval_seconds)
effective_interval(interval_seconds) ==
    IF interval_seconds > MinInterval THEN interval_seconds ELSE MinInterval

\* The cadence record of a new StorePoller.
NewCadence(interval_seconds) ==
    [configured |-> interval_seconds,
     interval_seconds |-> effective_interval(interval_seconds),
     started_at |-> 0, ended_at |-> 0, wake |-> 0]

\* StockAlertMonitor.__init__, StorePoller.__init__, HAWebhookClient.__init__
SysInit ==
    /\ products \in ProductLists
    /\ running = FALSE
    /\ task = "none"
    /\ ppc = "none"
    /\ idx = 0
    /\ previous_states = EmptyDict
    /\ psession = "none"
    /\ stop_pc = "idle"
    /\ hsession = "none"
    /\ dmsg = IdleMsg
    /\ inflight = [store |-> NoInflight, discord |-> NoInflight]
    /\ probed = {}
    /\ cycle_failed = {}
    /\ seen = [i \in DOMAIN products |-> "unseen"]
    /\ last_probe = NoProbe
    /\ gated = <<>>
    /\ ended = <<>>
    /\ queried = NoQuery
    /\ mstop = "running"
    /\ bench = NoBench

\* Mutant of start: the `if self._running` check is missing.
PollerStartUnchecked ==
    /\ stop_pc = "idle"
    /\ running' = TRUE
    /\ task' = "active"
    /\ ppc' = "new"
    /\ last_probe' = NoProbe
    /\ gated' = <<>>
    /\ ended' = <<>>
    /\ queried' = [who |-> "start", status |-> EmptyDict]
    /\ UNCHANGED <<bench, mstop, cadence, products, idx, previous_states, psession, stop_pc, hsession,
                   dmsg, inflight, probed, cycle_failed, seen>>
    /\ UNCHANGED gateVars

\* Mutant of start: the stored product states are dropped.
PollerStartForgets ==
    /\ stop_pc = "idle"
    /\ IF running
       THEN UNCHANGED <<running, task, ppc>>
       ELSE /\ running' = TRUE
            /\ task' = "active"
            /\ ppc' = "new"
    /\ previous_states' = EmptyDict
    /\ last_probe' = NoProbe
    /\ gated' = <<>>
    /\ ended' = <<>>
    /\ queried' = [who |-> "start", status |-> EmptyDict]
    /\ UNCHANGED <<bench, mstop, cadence, products, idx, psession, stop_pc,
                   hsession, dmsg, inflight, probed, cycle_failed, seen>>
    /\ UNCHANGED gateVars

\* StorePoller.start.  The call is noted in the history `queried`.
PollerStart ==
    /\ stop_pc = "idle"
    /\ IF running
       THEN UNCHANGED <<running, task, ppc>>
       ELSE /\ running' = TRUE
            /\ task' = "active"
            /\ ppc' = "new"
    /\ last_probe' = NoProbe
    /\ gated' = <<>>
    /\ ended' = <<>>
    /\ queried' = [who |-> "start", status |-> EmptyDict]
    /\ UNCHANGED <<bench, mstop, cadence, products, idx, previous_states, psession, stop_pc, hsession,
                   dmsg, inflight, probed, cycle_failed, seen>>
    /\ UNCHANGED gateVars

\* StorePoller._poll_loop when the task first runs or its interval sleep
\* ends: `while self._running`, then _poll_once up to the first GET.
PollLoopTop ==
    /\ task = "active"
    /\ ppc \in {"new", "interval"}
    /\ IF running
       THEN /\ idx' = 1
            /\ psession' = get_session(psession)
            /\ ppc' = "fetch"
            /\ probed' = {}
            /\ cycle_failed' = {}
            /\ UNCHANGED task
       ELSE /\ task' = "done"
            /\ ppc' = "ended"
            /\ UNCHANGED <<idx, psession, probed, cycle_failed>>
    /\ Quiet
    /\ UNCHANGED <<bench, mstop, cadence, products, running, previous_states, stop_pc, hsession, dmsg,
                   inflight, seen>>
    /\ UNCHANGED gateVars

\* StorePoller._poll_once from the answer to a product's GET to the next
\* suspension: check_product returns, the stored state is read and updated,
\* and on a transition the alert handler runs up to its POST.
FetchDone(resp) ==
    /\ task = "active"
    /\ ppc = "fetch"
    /\ LET sku == products[idx]
           st == check_product(resp)
           was == was_in_stock(sku)
           fire == ~st.raised /\ should_fire(st.in_stock, was)
           h == IF fire
                THEN on_store_alert(last_alerts, sku)
                ELSE [approved |-> FALSE, last_alerts |-> last_alerts, sent |-> 0]
       IN
       /\ last_probe' = [idx |-> idx, in_stock |-> st.in_stock,
                         quantity |-> st.quantity, failure |-> st.failure,
                         prior |-> seen[idx], alerted |-> fire,
                         raised |-> st.raised]
       /\ cycle_failed' = IF st.failure # "none"
                          THEN cycle_failed \cup {idx} ELSE cycle_failed
       /\ IF st.raised
          THEN \* the exception leaves _poll_once; _poll_loop logs it and sleeps
               /\ ppc' = "interval"
               /\ gated' = <<>>
               /\ ended' = <<>>
               /\ UNCHANGED <<previous_states, last_alerts, hsession, approvals,
                              inflight, seen, probed>>
          ELSE /\ previous_states' = update_state(sku, st.in_stock)
               /\ seen' = [seen EXCEPT ![idx] = IF st.in_stock THEN "in" ELSE "out"]
               /\ probed' = probed \cup {idx}
               /\ last_alerts' = h.last_alerts
               /\ approvals' = IF h.approved
                               THEN NoteApproval(approvals, Lower(sku), now)
                               ELSE approvals
               /\ gated' = IF fire THEN <<Gated("store", sku, h, approvals)>>
                           ELSE <<>>
               /\ IF h.sent > 0
                  THEN /\ inflight' = [inflight EXCEPT !.store =
                                         [sku |-> sku, approved |-> h.approved,
                                          sent |-> h.sent]]
                       /\ hsession' = get_session(hsession)
                       /\ ended' = <<>>
                       /\ ppc' = "post"
                  ELSE /\ ended' = IF fire
                                   THEN <<Ended("store", sku, h.approved, 0,
                                                "rejected")>>
                                   ELSE <<>>
                       /\ ppc' = "sleep2"
                       /\ UNCHANGED <<inflight, hsession>>
    /\ queried' = NoQuery
    /\ UNCHANGED <<bench, mstop, cadence, products, running, task, idx, psession, stop_pc, dmsg>>
    /\ UNCHANGED <<window_minutes, now, ncalls, last_call>>

\* The poller's alert handler from the answer to its POST: send_alert
\* returns, the handler ends, and _poll_once goes on to its sleep(2).  An
\* exception out of the handler is caught and logged by _poll_once.
StorePostDone(resp) ==
    /\ task = "active"
    /\ ppc = "post"
    /\ LET rec == inflight.store
           r == send_alert(resp)
           c == on_alert_sent(last_alerts, rec.sku, r)
       IN
       /\ last_alerts' = IF r.raised THEN last_alerts ELSE c.last_alerts
       /\ IF ~r.raised /\ c.resend
          THEN /\ inflight' = [inflight EXCEPT !.store.sent = @ + 1]
               /\ ended' = <<>>
               /\ ppc' = "post"
          ELSE /\ inflight' = [inflight EXCEPT !.store = NoInflight]
               /\ ended' = <<Ended("store", rec.sku, rec.approved, rec.sent,
                                   Outcome(r))>>
               /\ ppc' = "sleep2"
    /\ last_probe' = NoProbe
    /\ gated' = <<>>
    /\ queried' = NoQuery
    /\ UNCHANGED <<bench, mstop, cadence, products, running, task, idx, previous_states, psession,
                   stop_pc, hsession, dmsg, probed, cycle_failed, seen>>
    /\ UNCHANGED <<window_minutes, now, ncalls, last_call, approvals>>

\* StorePoller._poll_once when the sleep(2) after a product ends: the next
\* product's GET, or the end of the cycle and _poll_loop's interval sleep.
Sleep2Done ==
    /\ task = "active"
    /\ ppc = "sleep2"
    /\ IF idx < Len(products)
       THEN /\ idx' = idx + 1
            /\ psession' = get_session(psession)
            /\ ppc' = "fetch"
       ELSE /\ ppc' = "interval"
            /\ UNCHANGED <<idx, psession>>
    /\ Quiet
    /\ UNCHANGED <<bench, mstop, cadence, products, running, task, previous_states, stop_pc, hsession,
                   dmsg, inflight, probed, cycle_failed, seen>>
    /\ UNCHANGED gateVars

\* Mutant of stop: the flag is cleared but the task is not cancelled.
PollerStopBeginNoCancel ==
    /\ stop_pc = "idle"
    /\ running' = FALSE
    /\ IF task = "none"
       THEN UNCHANGED stop_pc
       ELSE stop_pc' = "wait_task"
    /\ Quiet
    /\ UNCHANGED <<bench, mstop, cadence, products, task, ppc, idx, previous_states, psession, hsession,
                   dmsg, inflight, probed, cycle_failed, seen>>
    /\ UNCHANGED gateVars

\* StorePoller.stop up to its wait for the task: the flag is cleared and the
\* task is cancelled.  CancelledError is raised in the task at the point
\* where it is suspended and no handler of the task catches it, so the task
\* never takes another step.
PollerStopBegin ==
    /\ stop_pc = "idle"
    /\ running' = FALSE
    /\ IF task = "none"
       THEN \* no task and no session was ever made: stop() returns
            UNCHANGED <<task, ppc, stop_pc, inflight>>
       ELSE /\ task' = "done"
            /\ ppc' = "ended"
            /\ stop_pc' = "wait_task"
            /\ inflight' = [inflight EXCEPT !.store = NoInflight]
    /\ Quiet
    /\ UNCHANGED <<bench, mstop, cadence, products, idx, previous_states, psession, hsession, dmsg,
                   probed, cycle_failed, seen>>
    /\ UNCHANGED gateVars

\* StorePoller.stop once the task has ended: an open session is closed.
PollerStopClose ==
    /\ stop_pc = "wait_task"
    /\ IF psession = "open"
       THEN /\ psession' = "closed"
            /\ stop_pc' = "settle"
       ELSE /\ stop_pc' = "idle"
            /\ UNCHANGED psession
    /\ Quiet
    /\ UNCHANGED <<bench, mstop, cadence, products, running, task, ppc, idx, previous_states, hsession,
                   dmsg, inflight, probed, cycle_failed, seen>>
    /\ UNCHANGED gateVars

\* StorePoller.stop returns after its settle delay.
PollerStopEnd ==
    /\ stop_pc = "settle"
    /\ stop_pc' = "idle"
    /\ Quiet
    /\ UNCHANGED <<bench, mstop, cadence, products, running, task, ppc, idx, previous_states, psession,
                   hsession, dmsg, inflight, probed, cycle_failed, seen>>
    /\ UNCHANGED gateVars

\* DiscordListener.on_message's loop over the role mentions `roles`, run
\* until the handler suspends in send_alert or the mentions run out.  g holds
\* _last_alerts (la) and the histories (ap, gated, ended).
RECURSIVE process_mentions(_, _)
process_mentions(roles, g) ==
    IF roles = <<>>
    THEN [pc |-> "idle", rest |-> <<>>, rec |-> NoInflight,
          la |-> g.la, ap |-> g.ap, gated |-> g.gated, ended |-> g.ended]
    ELSE LET role == Head(roles) IN
         IF Lower(role) \notin watched_roles
         THEN process_mentions(Tail(roles), g)
         ELSE LET h == on_discord_alert(g.la, role)
                  ap == IF h.approved
                        THEN NoteApproval(g.ap, Lower(role), now) ELSE g.ap
                  gt == Append(g.gated, Gated("discord", role, h, g.ap))
              IN IF h.sent > 0
                 THEN [pc |-> "post", rest |-> Tail(roles),
                       rec |-> [sku |-> role, approved |-> h.approved,
                                sent |-> h.sent],
                       la |-> h.last_alerts, ap |-> ap, gated |-> gt,
                       ended |-> g.ended]
                 ELSE process_mentions(Tail(roles),
                        [la |-> h.last_alerts, ap |-> ap, gated |-> gt,
                         ended |-> Append(g.ended,
                                     Ended("discord", role, h.approved, 0,
                                           "rejected"))])

\* DiscordListener.on_message for a new message, up to its first suspension.
DiscordMessage(m) ==
    /\ dmsg.pc = "idle"
    /\ IF ~m.guild \/ m.own
       THEN /\ gated' = <<>>
            /\ ended' = <<>>
            /\ UNCHANGED <<dmsg, last_alerts, approvals, inflight, hsession>>
       ELSE LET g == process_mentions(m.roles,
                        [la |-> last_alerts, ap |-> approvals,
                         gated |-> <<>>, ended |-> <<>>])
            IN /\ dmsg' = [pc |-> g.pc, rest |-> g.rest]
               /\ last_alerts' = g.la
               /\ approvals' = g.ap
               /\ gated' = g.gated
               /\ ended' = g.ended
               /\ inflight' = [inflight EXCEPT !.discord = g.rec]
               /\ hsession' = IF g.pc = "post" THEN get_session(hsession)
                              ELSE hsession
    /\ last_probe' = NoProbe
    /\ queried' = NoQuery
    /\ UNCHANGED pollVars
    /\ UNCHANGED <<window_minutes, now, ncalls, last_call>>

\* The chat handler from the answer to its POST: send_alert returns, the
\* handler ends (an exception out of it is caught and logged by on_message)
\* and on_message goes on with the remaining role mentions.
DiscordPostDone(resp) ==
    /\ dmsg.pc = "post"
    /\ LET rec == inflight.discord
           r == send_alert(resp)
           c == on_alert_sent(last_alerts, rec.sku, r)
           la == IF r.raised THEN last_alerts ELSE c.last_alerts
       IN IF ~r.raised /\ c.resend
          THEN /\ inflight' = [inflight EXCEPT !.discord.sent = @ + 1]
               /\ last_alerts' = la
               /\ gated' = <<>>
               /\ ended' = <<>>
               /\ UNCHANGED <<dmsg, approvals, hsession>>
          ELSE LET g == process_mentions(dmsg.rest,
                          [la |-> la, ap |-> approvals, gated |-> <<>>,
                           ended |-> <<Ended("discord", rec.sku, rec.approved,
                                             rec.sent, Outcome(r))>>])
               IN /\ dmsg' = [pc |-> g.pc, rest |-> g.rest]
                  /\ last_alerts' = g.la
                  /\ approvals' = g.ap
                  /\ gated' = g.gated
                  /\ ended' = g.ended
                  /\ inflight' = [inflight EXCEPT !.discord = g.rec]
                  /\ hsession' = IF g.pc = "post" THEN get_session(hsession)
                                 ELSE hsession
    /\ last_probe' = NoProbe
    /\ queried' = NoQuery
    /\ UNCHANGED pollVars
    /\ UNCHANGED <<window_minutes, now, ncalls, last_call>>

\* The whole monitor is run with the one product "AB"; the poller on its
\* own is run with every product list.
InitPoller ==
    /\ window_minutes \in 0..MaxWindow
    /\ GateInit
    /\ SysInit
    /\ cadence = NewCadence(DefaultInterval)

Init == InitPoller /\ products = <<SkuAB>>

ProbeAnswered == \E resp \in ProbeResponses : FetchDone(resp)
StoreSinkAnswered == \E resp \in SinkResponses : StorePostDone(resp)
MessageArrives == \E m \in Messages : DiscordMessage(m)
DiscordSinkAnswered == \E resp \in SinkResponses : DiscordPostDone(resp)

\* The whole monitor: both producers, the clock, and the poller's stop().
Next ==
    \/ PollerStart
    \/ PollLoopTop
    \/ ProbeAnswered
    \/ StoreSinkAnswered
    \/ Sleep2Done
    \/ PollerStopBegin
    \/ PollerStopClose
    \/ PollerStopEnd
    \/ MessageArrives
    \/ DiscordSinkAnswered
    \/ Tick

Spec == Init /\ [][Next]_vars

\* The poller on its own: no chat message arrives.
NextPoller ==
    \/ PollerStart
    \/ PollLoopTop
    \/ ProbeAnswered
    \/ StoreSinkAnswered
    \/ Sleep2Done
    \/ PollerStopBegin
    \/ PollerStopClose
    \/ PollerStopEnd
    \/ Tick

SpecPoller == InitPoller /\ [][NextPoller]_vars

\* The engine on its own, driven through its API.
InitGate ==
    /\ window_minutes \in -1..MaxWindow
    /\ GateInit
    /\ SysInit
    /\ cadence = NewCadence(DefaultInterval)

NextGate ==
    \/ GateShouldAlert
    \/ GateClear
    \/ GetStatusCall
    \/ Tick

SpecGate == InitGate /\ [][NextGate]_vars

\* ---------------------------------------------------------------- claims on the gate
IsShouldAlertStep == ncalls' = ncalls + 1 /\ last_call'.op = "should_alert"

\* C1: with a window W > 0 and no intervening clear, two approvals of the same
\* case-folded SKU are at least W apart.  The clock never runs backwards, so
\* it is enough that every approval is at least W after the approval of that
\* SKU that preceded it (last_call.prev, reset by every clear).
C1_AtMostOneApprovalPerWindow ==
    (window_minutes > 0 /\ last_call.op = "should_alert" /\ last_call.ret
        /\ last_call.prev # None)
    => last_call.t - last_call.prev[1] >= Window

\* A second approval of one SKU has happened under an enabled gate.
C1_Witness ==
    /\ window_minutes > 0
    /\ last_call.op = "should_alert"
    /\ last_call.ret
    /\ last_call.prev # None
    /\ last_call.arg = Some(Skuab)
    /\ ncalls = 3

\* C7: for W > 0 should_alert(sku) returns True exactly when the lower-cased
\* SKU has no record or the time elapsed since its record is >= W, and an
\* approval records the current time.
C7_ApprovedIffAbsentOrElapsed ==
    [][ (IsShouldAlertStep /\ window_minutes > 0) =>
          LET k == Lower(last_call'.arg[1]) IN
          /\ last_call'.ret =
                (k \notin DOMAIN last_alerts \/ now - last_alerts[k] >= Window)
          /\ last_call'.ret =>
                (k \in DOMAIN last_alerts' /\ last_alerts'[k] = now)
      ]_vars

\* A call was approved exactly W after the previous approval of its SKU.
C7_Witness ==
    /\ window_minutes > 0
    /\ last_call.op = "should_alert"
    /\ last_call.ret
    /\ last_call.prev # None
    /\ last_call.t - last_call.prev[1] = Window

\* C8: a should_alert call that returns False leaves the records unchanged,
\* so rejections do not extend the window: a call made W or more after the
\* last approval of its SKU is approved.
C8_RejectionLeavesRecords ==
    [][ IsShouldAlertStep =>
          /\ ~last_call'.ret => last_alerts' = last_alerts
          /\ LET k == Lower(last_call'.arg[1]) IN
             (k \in DOMAIN approvals /\ now - approvals[k] >= Window)
             => last_call'.ret
      ]_vars

\* A call was rejected strictly after the approval that blocks it.
C8_Witness ==
    /\ last_call.op = "should_alert"
    /\ ~last_call.ret
    /\ last_call.prev # None
    /\ last_call.t > last_call.prev[1]

\* C9: with window_minutes <= 0 every should_alert call returns True and no
\* record is written: the record map is empty and get_status() returns {}.
C9_DisabledGateRecordsNothing ==
    window_minutes <= 0 =>
        /\ last_alerts = EmptyDict
        /\ get_status = EmptyDict
        /\ last_call.op = "should_alert" => last_call.ret
        /\ last_call.op = "get_status" => last_call.status = EmptyDict

\* get_status() was called after approvals under a disabled gate.
C9_Witness ==
    /\ window_minutes <= 0
    /\ last_call.op = "get_status"
    /\ DOMAIN approvals # {}
    /\ ncalls > 2

\* C10: SKUs that differ only in letter case are one SKU for should_alert and
\* clear: a call inside the window of an approval of any spelling is
\* rejected, and after clear(sku) no spelling of sku is suppressed.
C10_CaseInsensitive ==
    /\ [][ (IsShouldAlertStep /\ window_minutes > 0) =>
             LET k == Lower(last_call'.arg[1]) IN
             (k \in DOMAIN approvals /\ now - approvals[k] < Window)
             => ~last_call'.ret
         ]_vars
    /\ [](  (last_call.op = "clear" /\ last_call.arg # None)
            => \A s \in SKUs :
                 Lower(s) = Lower(last_call.arg[1])
                 => should_alert(last_alerts, s).ret )

\* "ab" was rejected inside the window opened by the approval of "AB".
C10_Witness ==
    /\ window_minutes > 0
    /\ last_call.op = "should_alert"
    /\ last_call.arg = Some(Skuab)
    /\ ~last_call.ret
    /\ last_call.prev_sku = SkuAB
    /\ last_alerts = (Skuab :> last_call.t)
    /\ ncalls = 2


\* ---------------------------------------------------------------- claims on the running system
Producers == {"store", "discord"}

\* Producer src's handler is suspended in send_alert.
Pending(src) ==
    IF src = "store" THEN task = "active" /\ ppc = "post" ELSE dmsg.pc = "post"

\* C2: when the chat handler and the poller handler are invoked for the same
\* SKU within one window, under any interleaving of their suspension points,
\* should_alert is an atomic check-and-record: a handler's call is approved
\* exactly when no handler of either producer was approved for that
\* case-folded SKU in the preceding window, the approved handler makes one
\* sink submission and the rejected one ends without any.
C2_HandlersShareOneApproval ==
    window_minutes > 0 =>
        \A i \in DOMAIN gated :
            LET g == gated[i] IN
            /\ g.ret <=> (g.prev = None \/ now - g.prev[1] >= Window)
            /\ g.ret => /\ Pending(g.src)
                        /\ inflight[g.src] =
                              [sku |-> g.sku, approved |-> TRUE, sent |-> 1]
            /\ ~g.ret => \E j \in DOMAIN ended :
                            ended[j] = Ended(g.src, g.sku, FALSE, 0, "rejected")

\* The chat handler was invoked for "aB" and rejected while the poller's
\* handler for "AB", approved in the same minute, is suspended in send_alert.
C2_Witness ==
    /\ window_minutes > 0
    /\ Pending("store")
    /\ inflight.store = [sku |-> SkuAB, approved |-> TRUE, sent |-> 1]
    /\ gated = <<[src |-> "discord", sku |-> SkuaB, ret |-> FALSE,
                  prev |-> Some(now)]>>
    /\ ~Pending("discord")

\* C3: the poller invokes the alert callback for a product in a cycle if and
\* only if that cycle's probe reports in_stock and the product's previous
\* observation (none when unseen) was not in_stock; a true observation that
\* follows a true one never fires again.
C3_FiresOnTransitionOnly ==
    last_probe.idx # 0 =>
        /\ last_probe.alerted <=>
              (last_probe.in_stock /\ last_probe.prior # "in")
        /\ last_probe.alerted <=>
              (Len(gated) = 1 /\ gated[1].src = "store"
                 /\ gated[1].sku = products[last_probe.idx])

\* A product observed out of stock is observed in stock and the callback runs.
C3_Witness ==
    /\ last_probe.idx # 0
    /\ last_probe.prior = "out"
    /\ last_probe.in_stock
    /\ last_probe.alerted
    /\ Len(gated) = 1

\* C4: for every event a handler receives from either producer, an approval
\* by the gate results in exactly one send_alert call and a rejection in none.
C4_OneSubmissionIffApproved ==
    /\ \A src \in Producers :
          /\ inflight[src].sent = (IF inflight[src].approved THEN 1 ELSE 0)
          /\ Pending(src) <=> inflight[src].sent > 0
    /\ \A i \in DOMAIN ended :
          ended[i].sent = (IF ended[i].approved THEN 1 ELSE 0)
    /\ \A i \in DOMAIN gated :
          \/ gated[i].ret /\ inflight[gated[i].src].sku = gated[i].sku
                          /\ inflight[gated[i].src].approved
          \/ ~gated[i].ret /\ \E j \in DOMAIN ended :
                                 /\ ended[j].src = gated[i].src
                                 /\ ended[j].sku = gated[i].sku
                                 /\ ~ended[j].approved

\* One message's first mention was approved and delivered with one
\* submission, its second was rejected with none.
C4_Witness ==
    /\ Len(ended) = 2
    /\ ended[1].approved /\ ended[1].sent = 1 /\ ended[1].outcome = "delivered"
    /\ ~ended[2].approved /\ ended[2].sent = 0
    /\ Len(gated) = 1 /\ ~gated[1].ret

\* C5: when the submission of an approved alert fails, nothing is raised
\* past the handler, the submission is not made again and the dedup record
\* written by the approval is kept, so an event for the same SKU inside the
\* window is still rejected.
C5_SinkFailureKeepsRecord ==
    /\ \A i \in DOMAIN ended : ended[i].outcome # "raised" /\ ended[i].sent <= 1
    /\ \A src \in Producers : inflight[src].sent <= 1
    /\ window_minutes > 0 =>
          \A k \in DOMAIN approvals :
              /\ k \in DOMAIN last_alerts
              /\ last_alerts[k] = approvals[k]
              /\ now - approvals[k] < Window
                    => \A s \in SKUs : Lower(s) = k
                                       => ~should_alert(last_alerts, s).ret

\* A submission for "aB" failed and the same message's later mention "AB" was
\* rejected.
C5_Witness ==
    /\ window_minutes > 0
    /\ Len(ended) = 2
    /\ ended[1] = Ended("discord", SkuaB, TRUE, 1, "failed")
    /\ ended[2] = Ended("discord", SkuAB, FALSE, 0, "rejected")
    /\ last_alerts[Skuab] = approvals[Skuab]

\* C6: a probe that fails (an answer other than 200, a transport error, a
\* timeout, a parse exception) yields in_stock = False and quantity = None,
\* raises nothing out of check_product, causes no alert for that product,
\* and the cycle goes on: when the cycle ends every configured product has
\* been probed and evaluated.
C6_FailedProbeDegrades ==
    /\ ~last_probe.raised
    /\ last_probe.failure # "none" =>
          /\ ~last_probe.in_stock
          /\ last_probe.quantity = None
          /\ ~last_probe.alerted
          /\ gated = <<>>
          /\ ppc = "sleep2"
    /\ cycle_failed \subseteq probed
    /\ ppc = "interval" => probed = DOMAIN products

\* The first product's probe failed and, in the same cycle, the second
\* product was probed, found in stock and alerted.
C6_Witness ==
    /\ Len(products) = 2
    /\ cycle_failed = {1}
    /\ probed = {1, 2}
    /\ last_probe.idx = 2
    /\ last_probe.alerted


\* ---------------------------------------------------------------- claims on the poller's stored state
\* The configured products other than i whose SKU is that of product i up to
\* letter case.
SameFolded(i) ==
    {j \in DOMAIN products : j # i /\ Lower(products[j]) = Lower(products[i])}

\* C11: the poller's last-known state is looked up and stored per case-folded
\* SKU: once a product has been probed, every configured product whose SKU
\* differs from it only in letter case reads the fresh value as its stored
\* state, and a product does not fire when such a product was observed in
\* stock just before it in the same cycle.
C11_PollerStateCaseFolded ==
    (last_probe.idx # 0 /\ ~last_probe.raised) =>
        LET i == last_probe.idx
            before == {j \in SameFolded(i) : j < i}
        IN
        /\ \A j \in SameFolded(i) :
              was_in_stock(products[j]) = last_probe.in_stock
        /\ (last_probe.alerted /\ before # {}) =>
              LET j == CHOOSE x \in before : \A y \in before : y <= x
              IN seen[j] # "in"


\* ---------------------------------------------------------------- claims on clear and the status queries
IsClearStep == ncalls' = ncalls + 1 /\ last_call'.op = "clear"

\* C12: clear(sku) removes the record of that SKU only and leaves every other
\* record and its timestamp unchanged, so the next should_alert(sku) is
\* approved; clear() with no argument removes all records.
C12_ClearRemovesOnlyThatSku ==
    [][ IsClearStep =>
          IF last_call'.arg = None
          THEN last_alerts' = EmptyDict
          ELSE LET sku == last_call'.arg[1] IN
               /\ last_alerts' = DictPop(last_alerts, Lower(sku))
               /\ \A s \in SKUs : Lower(s) = Lower(sku)
                                  => should_alert(last_alerts', s).ret
      ]_vars


\* ---------------------------------------------------------------- the status queries
\* StorePoller.get_status: dict(self._previous_states), a copy.
poller_get_status == [sku \in DOMAIN previous_states |-> previous_states[sku]]

\* The fields of the engines (everything but the clock and the histories).
progVars == <<window_minutes, last_alerts, products, running, task, ppc, idx,
              previous_states, psession, stop_pc, hsession, dmsg>>

\* A caller invokes dedup.get_status() while the monitor runs.
DedupStatusQuery ==
    /\ queried' = [who |-> "dedup", status |-> get_status]
    /\ last_probe' = NoProbe
    /\ gated' = <<>>
    /\ ended' = <<>>
    /\ UNCHANGED <<bench, mstop, cadence, products, running, task, ppc, idx, previous_states, psession,
                   stop_pc, hsession, dmsg, inflight, probed, cycle_failed, seen>>
    /\ UNCHANGED gateVars

\* A caller invokes store_poller.get_status() while the monitor runs.
PollerStatusQuery ==
    /\ queried' = [who |-> "poller", status |-> poller_get_status]
    /\ last_probe' = NoProbe
    /\ gated' = <<>>
    /\ ended' = <<>>
    /\ UNCHANGED <<bench, mstop, cadence, products, running, task, ppc, idx, previous_states, psession,
                   stop_pc, hsession, dmsg, inflight, probed, cycle_failed, seen>>
    /\ UNCHANGED gateVars

\* The poller with the products "ab" and "c", and the two status queries.
InitStatus == InitPoller /\ products = <<Skuab, Skuc>>

NextStatus ==
    \/ PollerStart
    \/ PollLoopTop
    \/ ProbeAnswered
    \/ StoreSinkAnswered
    \/ Sleep2Done
    \/ PollerStopBegin
    \/ PollerStopClose
    \/ PollerStopEnd
    \/ Tick
    \/ DedupStatusQuery
    \/ PollerStatusQuery

SpecStatus == InitStatus /\ [][NextStatus]_vars

\* C13: the status queries are read-only and accurate: neither get_status()
\* changes any field of the engines, the poller's returns the stored states,
\* and the dedup status reports a SKU as blocked, with the time remaining,
\* exactly when should_alert at that instant would reject it, and as expired
\* otherwise.
C13_StatusReadOnlyAndAccurate ==
    /\ [][ queried'.who \in {"dedup", "poller"} => UNCHANGED progVars ]_vars
    /\ []( /\ queried.who = "poller" => queried.status = previous_states
           /\ queried.who = "dedup" =>
                /\ DOMAIN queried.status = DOMAIN last_alerts
                /\ \A k \in DOMAIN last_alerts :
                     LET st == queried.status[k]
                         remaining == Window - (now - last_alerts[k])
                     IN /\ st.blocked <=> ~should_alert(last_alerts, k).ret
                        /\ st.secs = (IF st.blocked THEN remaining * 60 ELSE 0)
                        /\ st.blocked => st.secs > 0 )

\* The dedup status was queried when "ab" had expired and "c" was blocked.
C13_Witness ==
    /\ queried.who = "dedup"
    /\ DOMAIN queried.status = {Skuab, Skuc}
    /\ ~queried.status[Skuab].blocked
    /\ queried.status[Skuc].blocked
    /\ DOMAIN previous_states = {Skuab, Skuc}


\* ---------------------------------------------------------------- claims on start and stop
\* C14: start() is idempotent: on a running engine it changes nothing and
\* raises nothing, a poll-loop task is created only when none is active, and
\* so after any sequence of start() and stop() calls at most one poll-loop
\* task is active, and one is exactly when the engine is running.
C14_StartIdempotent ==
    /\ [](task = "active" <=> running)
    /\ [][ queried'.who = "start" =>
             IF running
             THEN UNCHANGED progVars
             ELSE task # "active" /\ task' = "active" /\ ppc' = "new"
         ]_vars
    /\ [][ (task' = "active" /\ ppc' = "new" /\ ppc # "new")
             => task # "active" ]_vars

\* start() was called on an engine that is running and in the middle of a
\* cycle: the cycle goes on where it was.
C14_Witness ==
    /\ queried.who = "start"
    /\ running
    /\ task = "active"
    /\ ppc = "fetch"
    /\ idx = 2
    /\ DOMAIN previous_states # {}


\* C15: stop() is cooperative, not forcible: a product fetch in flight ends
\* only by check_product returning, an alert handler suspended in its sink
\* submission ends only by send_alert being answered, and the loop starts a
\* probe only while the engine is running.
C15_StopIsCooperative ==
    /\ [][ (task = "active" /\ ppc = "fetch" /\ ppc' # "fetch")
             => last_probe'.idx = idx ]_vars
    /\ [][ (inflight.store.sent > 0 /\ inflight'.store.sent = 0)
             => \E i \in DOMAIN ended' :
                   /\ ended'[i].src = "store"
                   /\ ended'[i].sku = inflight.store.sku
                   /\ ended'[i].outcome \in {"delivered", "failed"} ]_vars
    /\ [][ (ppc' = "fetch" /\ ppc # "fetch") => running ]_vars


\* C16: a stop request takes effect at whatever suspension point the poll
\* loop is in: from the moment stop() is called the loop has ended (stop()
\* never waits for the rest of the cycle or for the interval), no probe is
\* started while the engine is not running, and when stop() returns the
\* poller's HTTP session is not open.
C16_StopEndsLoopAndClosesSession ==
    /\ [](~running => (task # "active" /\ ppc \in {"none", "ended"}))
    /\ [](stop_pc = "wait_task" => task = "done")
    /\ [][ (ppc' = "fetch" /\ ppc # "fetch") => (running /\ task = "active") ]_vars
    /\ [][ (running /\ ~running') =>
             (task' # "active" /\ inflight'.store.sent = 0) ]_vars
    /\ [][ ((stop_pc # "idle" \/ (running /\ ~running')) /\ stop_pc' = "idle")
             => (~running' /\ task' # "active" /\ psession' # "open") ]_vars

\* stop() has returned after interrupting a cycle of two products between
\* the first product's probe and the second's: the session is closed.
C16_Witness ==
    /\ stop_pc = "idle"
    /\ ~running
    /\ task = "done"
    /\ psession = "closed"
    /\ Len(products) = 2
    /\ probed = {1}


\* ---------------------------------------------------------------- a failing alert callback
\* Mutant of _poll_once: the callback is awaited outside any try.
after_callback_uncaught(raised) == IF raised THEN "interval" ELSE "sleep2"

\* Where the poll task goes once the awaited callback has returned or raised:
\* `except Exception` logs the error and _poll_once goes on to its sleep(2).
after_callback(raised) == "sleep2"

\* The role mentions on_message goes on with once the awaited callback has
\* returned or raised: `except Exception` logs the error inside the loop.
after_discord_callback(raised, rest) == rest

\* The poller's callback raises an exception while it is awaited.
StoreHandlerRaises ==
    /\ task = "active"
    /\ ppc = "post"
    /\ LET rec == inflight.store IN
       /\ inflight' = [inflight EXCEPT !.store = NoInflight]
       /\ ended' = <<Ended("store", rec.sku, rec.approved, rec.sent, "raised")>>
       /\ ppc' = after_callback(TRUE)
    /\ last_probe' = NoProbe
    /\ gated' = <<>>
    /\ queried' = NoQuery
    /\ UNCHANGED <<bench, mstop, cadence, products, running, task, idx, previous_states, psession,
                   stop_pc, hsession, dmsg, probed, cycle_failed, seen>>
    /\ UNCHANGED gateVars

\* The chat listener's callback raises an exception while it is awaited.
DiscordHandlerRaises ==
    /\ dmsg.pc = "post"
    /\ LET rec == inflight.discord
           g == process_mentions(after_discord_callback(TRUE, dmsg.rest),
                  [la |-> last_alerts, ap |-> approvals, gated |-> <<>>,
                   ended |-> <<Ended("discord", rec.sku, rec.approved,
                                     rec.sent, "raised")>>])
       IN /\ dmsg' = [pc |-> g.pc, rest |-> g.rest]
          /\ last_alerts' = g.la
          /\ approvals' = g.ap
          /\ gated' = g.gated
          /\ ended' = g.ended
          /\ inflight' = [inflight EXCEPT !.discord = g.rec]
          /\ hsession' = IF g.pc = "post" THEN get_session(hsession)
                         ELSE hsession
    /\ last_probe' = NoProbe
    /\ queried' = NoQuery
    /\ UNCHANGED pollVars
    /\ UNCHANGED <<window_minutes, now, ncalls, last_call>>

\* Both producers with callbacks that can raise, two products, no stop().
InitFault == InitPoller /\ products = <<Skuab, Skuc>>

NextFault ==
    \/ PollerStart
    \/ PollLoopTop
    \/ ProbeAnswered
    \/ StoreSinkAnswered
    \/ Sleep2Done
    \/ MessageArrives
    \/ DiscordSinkAnswered
    \/ StoreHandlerRaises
    \/ DiscordHandlerRaises

SpecFault == InitFault /\ [][NextFault]_vars

\* The number of watched roles among the mentions in roles.
WatchedIn(roles) ==
    Cardinality({i \in DOMAIN roles : Lower(roles[i]) \in watched_roles})

\* C17: an exception raised by the alert handler is caught at the producer
\* boundary.  In the poller the task goes on to the delay after the product,
\* the cycle ends only when every product has been probed, and the loop is
\* not stopped; in the chat listener every remaining watched mention of the
\* message is handled in the same step or still queued, and the listener
\* takes the next message once the mentions run out.
C17_HandlerExceptionCaught ==
    /\ [](\A i \in DOMAIN ended :
            (ended[i].outcome = "raised" /\ ended[i].src = "store")
            => (task = "active" /\ ppc = "sleep2"))
    /\ [](ppc = "interval" => probed = DOMAIN products)
    /\ [](running => task = "active")
    /\ [][ (dmsg.pc = "post" /\ ended' # <<>>
              /\ ended'[1].src = "discord" /\ ended'[1].outcome = "raised")
           => /\ Len(gated') + WatchedIn(dmsg'.rest) = WatchedIn(dmsg.rest)
              /\ dmsg'.pc \in {"idle", "post"}
              /\ dmsg'.pc = "idle" => dmsg'.rest = <<>>
         ]_vars

\* The chat handler for "c" raised and the message's remaining mention "aB"
\* was handled in the same step.
C17_Witness ==
    /\ Len(ended) >= 1
    /\ ended[1] = Ended("discord", Skuc, TRUE, 1, "raised")
    /\ Len(gated) = 1
    /\ gated[1].sku = SkuaB
    /\ running


\* ---------------------------------------------------------------- an error in a poll cycle
\* Mutant of _poll_loop: _poll_once is awaited outside any try, and an
\* exception out of it ends the task.
after_poll_once_uncaught(raised) == IF raised THEN "ended" ELSE "interval"

\* Where the poll task goes once _poll_once has returned or raised:
\* `except Exception` logs the error and the loop begins its interval sleep.
after_poll_once(raised) == "interval"

\* An exception leaves _poll_once while a product is being checked (raised
\* outside check_product's own try, as by _get_session).
PollOnceRaises ==
    /\ task = "active"
    /\ ppc = "fetch"
    /\ ppc' = after_poll_once(TRUE)
    /\ task' = IF ppc' = "ended" THEN "done" ELSE task
    /\ cycle_failed' = cycle_failed \cup {idx}
    /\ Quiet
    /\ UNCHANGED <<bench, mstop, cadence, products, running, idx, previous_states, psession,
                   stop_pc, hsession, dmsg, inflight, probed, seen>>
    /\ UNCHANGED gateVars

\* The poller with cycles that can end in an error, two products, stop() and
\* restart.  The interval sleep always ends and the task is then scheduled.
InitLoop == InitPoller /\ products = <<Skuab, Skuc>>

NextLoop ==
    \/ PollerStart
    \/ PollLoopTop
    \/ ProbeAnswered
    \/ StoreSinkAnswered
    \/ Sleep2Done
    \/ PollOnceRaises
    \/ PollerStopBegin
    \/ PollerStopClose
    \/ PollerStopEnd
    \/ Tick

SpecLoop == InitLoop /\ [][NextLoop]_vars /\ WF_vars(PollLoopTop)

\* ---------------------------------------------------------------- the poll cadence
\* Whole minutes in interval_seconds: the clock `now` counts minutes.
Minutes(seconds) == seconds \div 60

\* `await asyncio.sleep(self.interval_seconds)` begins: the cycle has ended
\* now and the task sleeps until `wake`.
SleepInterval(c) ==
    [c EXCEPT !.ended_at = now, !.wake = now + Minutes(c.interval_seconds)]

\* PollLoopTop with the interval timer: the task leaves its interval sleep
\* only once the sleep has lasted interval_seconds.
TimedPollLoopTop ==
    /\ task = "active"
    /\ ppc \in {"new", "interval"}
    /\ ppc = "interval" => now >= cadence.wake
    /\ IF running
       THEN /\ idx' = 1
            /\ psession' = get_session(psession)
            /\ ppc' = "fetch"
            /\ probed' = {}
            /\ cycle_failed' = {}
            /\ cadence' = [cadence EXCEPT !.started_at = now]
            /\ UNCHANGED task
       ELSE /\ task' = "done"
            /\ ppc' = "ended"
            /\ UNCHANGED <<idx, psession, probed, cycle_failed, cadence>>
    /\ Quiet
    /\ UNCHANGED <<bench, mstop, products, running, previous_states, stop_pc, hsession, dmsg,
                   inflight, seen>>
    /\ UNCHANGED gateVars

\* Sleep2Done with the interval timer: after the last product the interval
\* sleep begins.
TimedSleep2Done ==
    /\ task = "active"
    /\ ppc = "sleep2"
    /\ IF idx < Len(products)
       THEN /\ idx' = idx + 1
            /\ psession' = get_session(psession)
            /\ ppc' = "fetch"
            /\ UNCHANGED cadence
       ELSE /\ ppc' = "interval"
            /\ cadence' = SleepInterval(cadence)
            /\ UNCHANGED <<idx, psession>>
    /\ Quiet
    /\ UNCHANGED <<bench, mstop, products, running, task, previous_states, stop_pc, hsession,
                   dmsg, inflight, probed, cycle_failed, seen>>
    /\ UNCHANGED gateVars

\* PollOnceRaises with the interval timer: _poll_loop logs the error and
\* begins the interval sleep.
TimedPollOnceRaises ==
    /\ task = "active"
    /\ ppc = "fetch"
    /\ ppc' = after_poll_once(TRUE)
    /\ task' = IF ppc' = "ended" THEN "done" ELSE task
    /\ cycle_failed' = cycle_failed \cup {idx}
    /\ cadence' = SleepInterval(cadence)
    /\ Quiet
    /\ UNCHANGED <<bench, mstop, products, running, idx, previous_states, psession,
                   stop_pc, hsession, dmsg, inflight, probed, seen>>
    /\ UNCHANGED gateVars

\* One product, every configured interval, the clock, stop() and restart.
InitCadence ==
    /\ window_minutes \in 0..MaxWindow
    /\ GateInit
    /\ SysInit
    /\ products = <<SkuAB>>
    /\ cadence \in {NewCadence(c) : c \in ConfiguredIntervals}

NextCadence ==
    \/ PollerStart
    \/ TimedPollLoopTop
    \/ ProbeAnswered
    \/ StoreSinkAnswered
    \/ TimedSleep2Done
    \/ TimedPollOnceRaises
    \/ PollerStopBegin
    \/ PollerStopClose
    \/ PollerStopEnd
    \/ Tick

SpecCadence == InitCadence /\ [][NextCadence]_vars

\* C18: the interval in force is the configured one raised to at least 60
\* seconds; the loop leaves its interval sleep for the next cycle only when
\* that whole interval has passed since the cycle before ended, whether that
\* cycle ended at once, late or in an error; and a cycle starts only when the
\* task has none in progress (its loop is new or in its interval sleep).
C18_PollCadence ==
    /\ [](/\ cadence.interval_seconds >= MinInterval
          /\ cadence.interval_seconds >= cadence.configured
          /\ cadence.interval_seconds \in {MinInterval, cadence.configured})
    /\ [][ (ppc # "interval" /\ ppc' = "interval")
             => cadence'.ended_at = now ]_vars
    /\ [][ (ppc = "interval" /\ ppc' = "fetch")
             => /\ now >= cadence.ended_at + Minutes(cadence.configured)
                /\ now >= cadence.ended_at + Minutes(MinInterval)
                /\ cadence'.started_at = now ]_vars
    /\ [][ (ppc' = "fetch" /\ idx' = 1 /\ ppc # "fetch")
             => ppc \in {"new", "interval"} ]_vars
    /\ [](ppc \in {"fetch", "post", "sleep2"} => task = "active")

\* With 30 seconds configured, the cycle before ended at minute 1 and the
\* cycle after it began a whole minute later, at minute 2.
C18_Witness ==
    /\ cadence.configured = 30
    /\ cadence.ended_at = 1
    /\ cadence.started_at = 2
    /\ ppc = "fetch"
    /\ now = 2


\* ---------------------------------------------------------------- the stored stock state
\* The entry of _previous_states for the product at position i, if there is one.
StoredState(i) ==
    IF products[i] \in DOMAIN previous_states
    THEN Some(previous_states[products[i]]) ELSE None

\* C19: the step that probes a product leaves the fresh in_stock value in
\* _previous_states, whether or not it raises an alert; every product probed
\* in the cycle keeps the value observed for the rest of the cycle; and when
\* the alert handler has ended, approved or rejected by the gate, delivered,
\* failed at the sink or by an exception, the product is stored as in stock.
C19_StoredStateIsFreshValue ==
    /\ [][ last_probe'.idx # 0
             => /\ products[idx] \in DOMAIN previous_states'
                /\ previous_states'[products[idx]] = last_probe'.in_stock ]_vars
    /\ [](\A i \in probed : StoredState(i) = Some(seen[i] = "in"))
    /\ [](\A i \in DOMAIN ended :
            ended[i].src = "store"
            => /\ ended[i].sku \in DOMAIN previous_states
               /\ previous_states[ended[i].sku])

\* The poller found "ab" in stock and raised an alert that the gate rejected:
\* "ab" is stored as in stock all the same.
C19_Witness ==
    /\ Len(ended) = 1
    /\ ended[1] = Ended("store", Skuab, FALSE, 0, "rejected")
    /\ StoredState(1) = Some(TRUE)
    /\ last_probe.idx = 1
    /\ last_probe.alerted


\* ---------------------------------------------------------------- the loop survives errors
\* C20: an exception out of a poll cycle leaves the task alive in its
\* interval sleep; while the engine is running its task is alive, and the
\* task ends only in a step of stop(); and whenever the loop is in its
\* interval sleep after a cycle, ended well or in an error, a new cycle
\* starts later unless stop() is called first.
C20_LoopSurvivesErrors ==
    /\ [][ (ppc = "fetch" /\ ppc' # "fetch" /\ last_probe'.idx = 0 /\ running')
             => (task' = "active" /\ ppc' = "interval") ]_vars
    /\ [](running => task = "active")
    /\ [][ (task = "active" /\ task' # "active") => (running /\ ~running') ]_vars
    /\ ((task = "active" /\ ppc = "interval")
          ~> ((ppc = "fetch" /\ idx = 1) \/ ~running))

\* The cycle ended in an error while the second product was being checked:
\* the engine is running and its task is in the interval sleep.
C20_Witness ==
    /\ running
    /\ task = "active"
    /\ ppc = "interval"
    /\ Len(products) = 2
    /\ probed = {1}
    /\ 2 \in cycle_failed


\* ---------------------------------------------------------------- the sink client on its own
\* HAWebhookClient.close: an open session is closed.
close_session(sess) == IF sess = "open" THEN "closed" ELSE sess

\* The `source` argument of send_alert.
Sources == {"discord", "store_poller"}

\* Everything but the sink client's session, the call counter and the bench.
sinkRest ==
    <<window_minutes, last_alerts, now, last_call, approvals, products,
      running, task, ppc, idx, previous_states, psession, stop_pc, dmsg,
      inflight, probed, cycle_failed, seen, last_probe, gated, ended,
      queried, cadence, mstop>>

\* A caller awaits send_alert(sku, source): the session is made if it is
\* missing or closed, and the POST is sent.
SendAlertBegin(sku, source) ==
    /\ bench.op # "posting"
    /\ ncalls < MaxCalls
    /\ hsession' = get_session(hsession)
    /\ bench' = [op |-> "posting",
                 arg |-> [product_sku |-> sku, source |-> source],
                 out |-> <<>>]
    /\ UNCHANGED ncalls
    /\ UNCHANGED sinkRest

\* The POST is answered, or fails in transport; a POST whose session was
\* closed under it fails in transport.
SendAlertDone(resp) ==
    /\ bench.op = "posting"
    /\ hsession = "closed" => resp.kind = "client_error"
    /\ bench' = [op |-> "send_alert",
                 arg |-> [call |-> bench.arg, resp |-> resp],
                 out |-> send_alert(resp)]
    /\ ncalls' = ncalls + 1
    /\ UNCHANGED hsession
    /\ UNCHANGED sinkRest

\* A caller awaits close() on an open session.
SinkClose ==
    /\ hsession = "open"
    /\ hsession' = close_session(hsession)
    /\ UNCHANGED <<ncalls, bench>>
    /\ UNCHANGED sinkRest

SendAlertCalled == \E sku \in SKUs, source \in Sources : SendAlertBegin(sku, source)
SendAlertAnswered == \E resp \in SinkResponses : SendAlertDone(resp)

InitSink == InitPoller /\ products = <<SkuAB>>

NextSink ==
    \/ SendAlertCalled
    \/ SendAlertAnswered
    \/ SinkClose

SpecSink == InitSink /\ [][NextSink]_vars

\* C21: send_alert returns True for every response with a status from 200 to
\* 299, and returns False, raising nothing, for every other status and for
\* every transport failure.
C21_SuccessIffTwoHundreds ==
    bench.op = "send_alert"
    => /\ ~bench.out.raised
       /\ bench.out.ret = (/\ bench.arg.resp.kind = "http"
                           /\ bench.arg.resp.status >= 200
                           /\ bench.arg.resp.status <= 299)


\* ---------------------------------------------------------------- the classifier on its own
\* out_of_stock_indicators
out_of_stock_indicators ==
    {"out of stock", "sold out", "currently unavailable", "notify me",
     "coming soon"}

\* The phrase of interest in a page's text, as the page spells it ("none": no
\* such phrase), and str.lower() on it.
PageTexts == {"none", "SOLD OUT", "Notify Me"} \cup out_of_stock_indicators
LowerText(t) ==
    IF t = "SOLD OUT" THEN "sold out"
    ELSE IF t = "Notify Me" THEN "notify me"
    ELSE t

\* The buttons of a page: none, one with data-testid="add-to-cart", one whose
\* text is "Add to Cart", or only one with some other text.
ButtonKinds == {"none", "testid", "text", "other"}

\* Product pages as markup.
Markups ==
    [parse : {"ok", "soup_error"}, button : ButtonKinds, text : PageTexts,
     qty : {"absent", "empty", "text", "number"}]

\* soup.find by data-testid, then by the button's lower-cased text.
find_add_to_cart(button) ==
    IF button = "testid" THEN TRUE ELSE button = "text"

\* any(indicator in page_text for indicator in out_of_stock_indicators)
is_out_of_stock(text) == LowerText(text) \in out_of_stock_indicators

\* What _parse_product_page finds in the markup.
Signals(markup) ==
    [parse |-> markup.parse, cart |-> find_add_to_cart(markup.button),
     oos |-> is_out_of_stock(markup.text), qty |-> markup.qty]

\* A caller invokes _parse_product_page(product, html).
ClassifyCall(markup) ==
    /\ ncalls < MaxCalls
    /\ bench' = [op |-> "parse", arg |-> markup,
                 out |-> parse_product_page(Signals(markup))]
    /\ ncalls' = ncalls + 1
    /\ UNCHANGED hsession
    /\ UNCHANGED sinkRest

Classify == \E markup \in Markups : ClassifyCall(markup)

InitClassifier == InitPoller /\ products = <<SkuAB>>

NextClassifier == Classify

SpecClassifier == InitClassifier /\ [][NextClassifier]_vars

\* The page has a purchase control; the page has an unavailability phrase.
HasControl(m) == m.button \in {"testid", "text"}
HasPhrase(m) == m.text # "none"

\* C22: for markup that parses, in_stock is (purchase control found) and not
\* (unavailability phrase present), whatever the quantity element holds, so a
\* page with both is out of stock; markup that does not parse is out of
\* stock; the quantity is None unless the quantity element holds a number;
\* and the classifier raises nothing.
C22_ClassifierRule ==
    bench.op = "parse"
    => LET m == bench.arg
           r == bench.out
       IN /\ ~r.raised
          /\ m.parse = "ok" => r.in_stock = (HasControl(m) /\ ~HasPhrase(m))
          /\ (HasControl(m) /\ HasPhrase(m)) => ~r.in_stock
          /\ m.parse = "soup_error" => (~r.in_stock /\ r.quantity = None)
          /\ m.qty # "number" => r.quantity = None
          /\ (m.parse = "ok" /\ m.qty = "number") => r.quantity # None

\* A page with an "Add to Cart" button, the text "SOLD OUT" and a quantity
\* element that holds no number was classified: out of stock, quantity None.
C22_Witness ==
    /\ bench.op = "parse"
    /\ bench.arg = [parse |-> "ok", button |-> "text", text |-> "SOLD OUT",
                    qty |-> "text"]
    /\ ~bench.out.in_stock
    /\ bench.out.quantity = None


\* ---------------------------------------------------------------- stop() and restart
\* The poll loop's first cycle after start().
FirstCycle == ppc = "new" /\ PollLoopTop

\* The poller stopped before its first interval sleep ends, and restarted:
\* every cycle is the first one after a start(), and an observation made
\* before a cycle was made in a run that stop() has ended.
InitRestart == InitPoller /\ products = <<Skuab, Skuc>>

NextRestart ==
    \/ PollerStart
    \/ FirstCycle
    \/ ProbeAnswered
    \/ StoreSinkAnswered
    \/ Sleep2Done
    \/ PollerStopBegin
    \/ PollerStopClose
    \/ PollerStopEnd

SpecRestart == InitRestart /\ [][NextRestart]_vars

\* C23: no step of stop() or start() changes _previous_states; and in the
\* first cycle after a restart a product last observed in stock (in the run
\* before) and in stock again raises no alert, while a product never
\* observed, or last observed out of stock, raises one when it is in stock.
C23_StateSurvivesRestart ==
    /\ [][ (running' # running \/ stop_pc' # stop_pc \/ queried'.who = "start")
             => previous_states' = previous_states ]_vars
    /\ [][ (last_probe'.idx # 0 /\ last_probe'.in_stock)
             => /\ (last_probe'.prior = "in" \/ was_in_stock(products[idx]))
                   => (~last_probe'.alerted /\ gated' = <<>>
                         /\ inflight'.store.sent = 0)
                /\ (last_probe'.prior \in {"unseen", "out"}
                      \/ ~was_in_stock(products[idx]))
                   => (last_probe'.alerted /\ Len(gated') = 1) ]_vars

\* After a restart the first product, seen in stock in the run before, is in
\* stock again and raises no alert.
C23_Witness ==
    /\ last_probe.idx = 1
    /\ last_probe.prior = "in"
    /\ last_probe.in_stock
    /\ ~last_probe.alerted
    /\ gated = <<>>
    /\ running


\* ---------------------------------------------------------------- a sink that never delivers
\* The answers to a POST for which send_alert returns False.
FailingSinkResponses == {resp \in SinkResponses : ~send_alert(resp).ret}

StoreSinkFails == \E resp \in FailingSinkResponses : StorePostDone(resp)

\* The poller with a sink that is down and a callback that can raise: no
\* alert is ever delivered.
InitSinkDown == InitPoller

NextSinkDown ==
    \/ PollerStart
    \/ PollLoopTop
    \/ ProbeAnswered
    \/ StoreSinkFails
    \/ StoreHandlerRaises
    \/ Sleep2Done

SpecSinkDown == InitSinkDown /\ [][NextSinkDown]_vars

\* C24: the poller invokes the alert handler only in the step that observes
\* a product in stock whose stored state was not in stock, and once in that
\* step; when the handler has ended without a delivery (rejected by the gate,
\* failed at the sink, or by an exception) the stored state is in stock and
\* the task has moved on to the delay after the product; and a product that
\* is observed in stock while stored as in stock raises no alert, so no later
\* cycle repeats the alert while the product stays in stock.
C24_NoRepeatAfterFailure ==
    /\ [][ (last_probe'.idx # 0 /\ last_probe'.alerted)
             => /\ last_probe'.in_stock
                /\ last_probe'.prior # "in"
                /\ ~was_in_stock(products[idx])
                /\ Len(gated') = 1 ]_vars
    /\ [][ last_probe'.idx = 0 => gated' = <<>> ]_vars
    /\ [](\A i \in DOMAIN ended :
            /\ ended[i].src = "store"
            /\ ended[i].outcome \in {"rejected", "failed", "raised"}
            /\ ended[i].sku \in DOMAIN previous_states
            /\ previous_states[ended[i].sku]
            /\ ppc = "sleep2"
            /\ inflight.store.sent = 0)
    /\ [][ (last_probe'.idx # 0 /\ last_probe'.in_stock
              /\ was_in_stock(products[idx]))
             => (~last_probe'.alerted /\ gated' = <<>>
                   /\ inflight'.store.sent = 0) ]_vars

\* The gate approved the alert for "ab" and the alert was not delivered; in a
\* later cycle "ab" is in stock still, and no alert is raised.
C24_Witness ==
    /\ products = <<Skuab, Skuc>>
    /\ window_minutes > 0
    /\ Lower(Skuab) \in DOMAIN last_alerts
    /\ last_probe.idx = 1
    /\ last_probe.prior = "in"
    /\ last_probe.in_stock
    /\ ~last_probe.alerted
    /\ gated = <<>>


\* ---------------------------------------------------------------- the monitor's shutdown
\* StockAlertMonitor.start: the poller is started.
MonitorStart == mstop = "running" /\ PollerStart

\* A message arrives while the chat listener is connected.
ListenerMessage == mstop = "running" /\ MessageArrives

\* The POST of the chat handler in flight is answered; a POST whose session
\* was closed under it fails in transport.
HandlerSinkAnswered ==
    \E resp \in SinkResponses :
        /\ hsession = "closed" => resp.kind = "client_error"
        /\ DiscordPostDone(resp)

\* StockAlertMonitor.stop up to the return of discord_listener.shutdown():
\* the client is closed and no further message is dispatched.  The
\* on_message coroutine in flight is a task of its own, which close() and
\* the cancellation of the start task leave alone.
MonitorStopListener ==
    /\ mstop = "running"
    /\ mstop' = "poller"
    /\ Quiet
    /\ UNCHANGED <<bench, cadence, products, running, task, ppc, idx,
                   previous_states, psession, stop_pc, hsession, dmsg,
                   inflight, probed, cycle_failed, seen>>
    /\ UNCHANGED gateVars

\* StockAlertMonitor.stop awaits store_poller.stop().
MonitorStopPollerBegin == mstop = "poller" /\ running /\ PollerStopBegin
MonitorStopPollerClose == mstop = "poller" /\ PollerStopClose
MonitorStopPollerEnd == mstop = "poller" /\ PollerStopEnd

\* StockAlertMonitor.stop from the return of store_poller.stop() (or with
\* no poller running) to its end: ha_client.close().
MonitorStopSink ==
    /\ mstop = "poller"
    /\ ~running
    /\ stop_pc = "idle"
    /\ hsession' = close_session(hsession)
    /\ mstop' = "complete"
    /\ Quiet
    /\ UNCHANGED <<bench, cadence, products, running, task, ppc, idx,
                   previous_states, psession, stop_pc, dmsg, inflight,
                   probed, cycle_failed, seen>>
    /\ UNCHANGED gateVars

\* After stop() the event loop is torn down (asyncio.run): the on_message
\* task still in flight is cancelled where it is suspended.
LoopTeardown ==
    /\ mstop = "complete"
    /\ dmsg.pc = "post"
    /\ dmsg' = IdleMsg
    /\ inflight' = [inflight EXCEPT !.discord = NoInflight]
    /\ Quiet
    /\ UNCHANGED <<bench, mstop, cadence, products, running, task, ppc, idx,
                   previous_states, psession, stop_pc, hsession, probed,
                   cycle_failed, seen>>
    /\ UNCHANGED gateVars

\* The whole monitor with one product, from construction to after stop().
InitShutdown == InitPoller /\ products = <<SkuAB>>

NextShutdown ==
    \/ MonitorStart
    \/ PollLoopTop
    \/ ProbeAnswered
    \/ StoreSinkAnswered
    \/ Sleep2Done
    \/ ListenerMessage
    \/ HandlerSinkAnswered
    \/ MonitorStopListener
    \/ MonitorStopPollerBegin
    \/ MonitorStopPollerClose
    \/ MonitorStopPollerEnd
    \/ MonitorStopSink
    \/ LoopTeardown

SpecShutdown == InitShutdown /\ [][NextShutdown]_vars

\* C25: stop() closes the sink client only when the chat listener is shut
\* down and the poller has stopped; once it has closed the sink client no
\* handler's gate call is approved and followed by send_alert, and the sink
\* client's session is never open again.
C25_SinkStaysClosed ==
    /\ [][ mstop' = "complete" => (~running' /\ task' # "active") ]_vars
    /\ [][ mstop = "complete"
             => \A i \in DOMAIN gated' : ~gated'[i].ret ]_vars
    /\ [](mstop = "complete" => hsession # "open")

====
